---- MODULE Spec2Model ----
(***************************************************************************)
(* Model of scatterer_control.py: the leapfrog forward and backward wave   *)
(* solvers on a discrete-exterior-calculus mesh, the adjoint-state cost    *)
(* gradient, and the conjugate gradient loop that drives the periodicity   *)
(* defect to zero.                                                         *)
(*                                                                         *)
(* Numbers.  The program computes in float64.  The model computes in a     *)
(* reduced-precision arithmetic of the same shape: a finite value is       *)
(* (n/d) * 2^e with n and d odd, coprime and of at most PrecisionBits bits *)
(* and |e| <= MaxExp; an operation whose exact result does not fit is      *)
(* rounded towards zero, a result too large becomes +-Inf, one too small   *)
(* becomes 0, and 0/0, Inf-Inf, 0*Inf are NaN, which every operation       *)
(* propagates and every comparison answers False to, as IEEE-754 does.     *)
(* Results that fit are exact, so identities of exact arithmetic can be    *)
(* checked on small inputs.                                                *)
(*                                                                         *)
(* Units.  Angles are measured in quarter turns (np.pi is 2), lengths in   *)
(* the unit that makes the wavenumber 1 quarter turn per length, and time  *)
(* in units of dt.  math.sin and math.cos are the triangle wave that       *)
(* agrees with them at every multiple of a quarter turn.                   *)
(***************************************************************************)
EXTENDS Integers, Sequences, FiniteSets, TLC

\* ----------------------------------------------------------------- bounds
\* Bits of a numerator or a denominator (float64 has 53 bits of mantissa).
PrecisionBits == 14

\* Largest binary exponent (float64 has 1023).
MaxExp == 60

\* wave_period / dt, which is 120 in the program (pi over pi/120).
PeriodSteps == 2

\* args.max_iters is drawn from 0..MaxIters (the program's default is 50).
MaxIters == 2

\* ------------------------------------------------------------ float values
Pow2(k) == 2^k

MaxMant == Pow2(PrecisionBits) - 1

NaN == [n |-> 0, d |-> 0, e |-> 0]
PosInf == [n |-> 1, d |-> 0, e |-> 0]
NegInf == [n |-> -1, d |-> 0, e |-> 0]
Zero == [n |-> 0, d |-> 1, e |-> 0]

IAbs(i) == IF i < 0 THEN -i ELSE i
ISign(i) == IF i < 0 THEN -1 ELSE IF i > 0 THEN 1 ELSE 0

\* Euclid's algorithm, two steps at a time.
RECURSIVE Gcd(_, _)
Gcd(a, b) ==
    IF b = 0 THEN a
    ELSE IF a % b = 0 THEN b
    ELSE Gcd(a % b, b % (a % b))

\* The bits of 0 <= m < 2^31.
BitLen(m) == IF m = 0 THEN 0 ELSE CHOOSE b \in 1..31 : Pow2(b - 1) <= m /\ m \div 2 < Pow2(b - 1)

\* Trailing zero bits of 0 < m < 2^31.
TwosIn(m) ==
    IF m % 2 = 1 THEN 0
    ELSE CHOOSE t \in 1..30 : m % Pow2(t) = 0 /\ (m \div Pow2(t)) % 2 = 1

\* The number of halvings after which m fits MaxMant.
Excess(m) == IF m <= MaxMant THEN 0 ELSE BitLen(m) - PrecisionBits

IsNaN(x) == x.d = 0 /\ x.n = 0
IsInf(x) == x.d = 0 /\ x.n # 0
IsFinite(x) == x.d > 0

\* m > 0 without its factors 2.
OddPart(m) == m \div Pow2(TwosIn(m))

\* m > 0 cut to its leading PrecisionBits bits.
Leading(m) == m \div Pow2(Excess(m))

\* The float s * (a/d) * 2^e of odd a, d > 0 that fit PrecisionBits bits.
Pack(s, a, d, e) ==
    IF e > MaxExp THEN [n |-> s, d |-> 0, e |-> 0]
    ELSE IF e < -MaxExp THEN Zero
    ELSE [n |-> s * (a \div Gcd(a, d)), d |-> d \div Gcd(a, d), e |-> e]

\* s * (a/d) * 2^e of a, d > 0 that fit: the factors 2 go to the exponent.
RoundFitting(s, a, d, e) ==
    Pack(s, OddPart(a), OddPart(d), e + TwosIn(a) - TwosIn(d))

\* s * (a/d) * 2^e of odd a, d > 0: both are cut to PrecisionBits bits.
RoundOdd(s, a, d, e) ==
    RoundFitting(s, Leading(a), Leading(d), e + Excess(a) - Excess(d))

\* s * (a/d) * 2^e of coprime a, d > 0.
RoundCoprime(s, a, d, e) ==
    RoundOdd(s, OddPart(a), OddPart(d), e + TwosIn(a) - TwosIn(d))

\* The float of the exact value (n/d) * 2^e, d > 0, rounded towards zero.
Round(n, d, e) ==
    IF n = 0 THEN Zero
    ELSE RoundCoprime(ISign(n), IAbs(n) \div Gcd(IAbs(n), d),
                      d \div Gcd(IAbs(n), d), e)

\* An int as a float.
R(i) == Round(i, 1, 0)

\* The decimal literal n/d.
Lit(n, d) == Round(n, d, 0)

RNeg(x) == [n |-> -x.n, d |-> x.d, e |-> x.e]

RAbs(x) == [n |-> IAbs(x.n), d |-> x.d, e |-> x.e]

\* The sum of two finite non-zero floats: exact when the aligned numerators fit
\* 30 bits, else the low bits of the term of smaller exponent are dropped.
AddFinite(x, y) ==
    LET big   == IF x.e >= y.e THEN x ELSE y
        small == IF x.e >= y.e THEN y ELSE x
        gap   == big.e - small.e
        tb    == big.n * small.d
        ts    == small.n * big.d
        dd    == x.d * y.d
        sh    == BitLen(IAbs(tb)) + gap - 30
    IN  IF sh <= 0 THEN Round(tb * Pow2(gap) + ts, dd, small.e)
        ELSE Round(tb * Pow2(gap - sh)
                     + (IF sh >= 31 THEN 0 ELSE ISign(ts) * (IAbs(ts) \div Pow2(sh))),
                   dd, small.e + sh)

RAdd(x, y) ==
    IF IsNaN(x) \/ IsNaN(y) THEN NaN
    ELSE IF IsInf(x) /\ IsInf(y) THEN (IF x.n = y.n THEN x ELSE NaN)
    ELSE IF IsInf(x) THEN x
    ELSE IF IsInf(y) THEN y
    ELSE IF x.n = 0 THEN y
    ELSE IF y.n = 0 THEN x
    ELSE AddFinite(x, y)

RSub(x, y) == RAdd(x, RNeg(y))

RMul(x, y) ==
    IF IsNaN(x) \/ IsNaN(y) THEN NaN
    ELSE IF IsInf(x) \/ IsInf(y)
         THEN (IF x.n = 0 \/ y.n = 0 THEN NaN
               ELSE [n |-> ISign(x.n) * ISign(y.n), d |-> 0, e |-> 0])
    ELSE IF x.n = 0 \/ y.n = 0 THEN Zero
    ELSE Round(x.n * y.n, x.d * y.d, x.e + y.e)

\* numpy float64 division: x/0 is +-Inf, 0/0 is NaN, and nothing is raised.
RDiv(x, y) ==
    IF IsNaN(x) \/ IsNaN(y) THEN NaN
    ELSE IF IsInf(x)
         THEN (IF IsInf(y) THEN NaN
               ELSE [n |-> x.n * (IF y.n < 0 THEN -1 ELSE 1), d |-> 0, e |-> 0])
    ELSE IF IsInf(y) THEN Zero
    ELSE IF y.n = 0
         THEN (IF x.n = 0 THEN NaN ELSE [n |-> ISign(x.n), d |-> 0, e |-> 0])
    ELSE IF x.n = 0 THEN Zero
    ELSE Round(x.n * y.d * ISign(y.n), x.d * IAbs(y.n), x.e - y.e)

\* x < y; False when either is NaN.
RLt(x, y) ==
    IF IsNaN(x) \/ IsNaN(y) THEN FALSE
    ELSE IF IsInf(x) THEN x.n < 0 /\ y # x
    ELSE IF IsInf(y) THEN y.n > 0
    ELSE RSub(x, y).n < 0

\* x <= y; False when either is NaN.
RLe(x, y) == ~IsNaN(x) /\ ~IsNaN(y) /\ ~RLt(y, x)

\* The floor of a finite float, as an int.
Floor(x) ==
    IF x.e >= 0 THEN (x.n * Pow2(x.e)) \div x.d
    ELSE IF BitLen(x.d) - x.e > 30 THEN (IF x.n < 0 THEN -1 ELSE 0)
    ELSE x.n \div (x.d * Pow2(-x.e))

\* math.ceil of a finite float.
Ceil(x) == -Floor(RNeg(x))

\* The integer square root of m, from 16 times that of m \div 256.
SqrtStep(r, m) == r + CHOOSE q \in 0..15 : (r + q) * (r + q) <= m /\ m < (r + q + 1) * (r + q + 1)

RECURSIVE ISqrt(_)
ISqrt(m) == IF m = 0 THEN 0 ELSE SqrtStep(16 * ISqrt(m \div 256), m)

\* The largest j with m * 4^j below 2^30, for 0 < m < 2^30.
Room(m) == (30 - BitLen(m)) \div 2

\* The square root of a float >= 0 (or NaN, +Inf), rounded towards zero.
RSqrt(x) ==
    IF ~IsFinite(x) \/ x.n = 0 THEN x
    ELSE
    LET m0  == x.n * x.d
        odd == x.e % 2 = 1
        m1  == IF ~odd THEN m0 ELSE IF m0 < Pow2(29) THEN 2 * m0 ELSE m0 \div 2
        e1  == IF ~odd THEN x.e ELSE IF m0 < Pow2(29) THEN x.e - 1 ELSE x.e + 1
        j   == Room(m1)
    IN  Round(ISqrt(m1 * Pow2(2 * j)), x.d, (e1 \div 2) - j)

\* ------------------------------------------------------------------ trig
\* np.pi, in quarter turns.
np_pi == R(2)

\* math.sin of an angle in quarter turns is the triangle wave through
\* sin's values 0, 1, 0, -1 at 0, 1, 2, 3; r is the angle within its turn.
TriangleWave(r) ==
    IF RLe(r, R(1)) THEN r
    ELSE IF RLe(r, R(3)) THEN RSub(R(2), r)
    ELSE RSub(r, R(4))

math_sin(x) ==
    IF ~IsFinite(x) THEN NaN
    ELSE TriangleWave(RSub(x, R(4 * Floor(RDiv(x, R(4))))))

math_cos(x) == math_sin(RAdd(x, R(1)))

\* ------------------------------------------------------- statement order
\* F of the value of v.  v is evaluated before F is entered, as a statement
\* of the source has run before the next one starts.
Bind(v, F(_)) == CHOOSE r \in {F(x) : x \in {v}} : TRUE

\* ---------------------------------------------------------------- vectors
\* numpy arrays are sequences of floats.

\* <<F(1), ..., F(n)>>
RECURSIVE Tabulate(_, _)
Tabulate(F(_), n) == IF n = 0 THEN <<>> ELSE Append(Tabulate(F, n - 1), F(n))

RECURSIVE SumSeq(_, _)
SumSeq(s, k) == IF k = 0 THEN Zero ELSE RAdd(SumSeq(s, k - 1), s[k])

np_dot(a, b) == SumSeq(Tabulate(LAMBDA j : RMul(a[j], b[j]), Len(a)), Len(a))

np_zeros(k) == Tabulate(LAMBDA j : Zero, k)

VecAdd(a, b) == Tabulate(LAMBDA j : RAdd(a[j], b[j]), Len(a))
VecSub(a, b) == Tabulate(LAMBDA j : RSub(a[j], b[j]), Len(a))
VecNeg(a) == Tabulate(LAMBDA j : RNeg(a[j]), Len(a))
VecScale(s, a) == Tabulate(LAMBDA j : RMul(s, a[j]), Len(a))

\* 1, ..., n
Range(n) == Tabulate(LAMBDA j : j, n)

\* A scipy sparse matrix: for each row the stored entries <<column, value>>,
\* by column.  A product visits stored entries only.
SparseRow(row, v) ==
    SumSeq(Tabulate(LAMBDA k : RMul(row[k][2], v[row[k][1]]), Len(row)), Len(row))

SparseMul(m, v) == Tabulate(LAMBDA r : SparseRow(m[r], v), Len(m))

RECURSIVE ColumnOf(_, _, _)
ColumnOf(m, j, r) ==
    IF r = 0 THEN <<>>
    ELSE LET hit == SelectSeq(m[r], LAMBDA en : en[1] = j)
         IN  ColumnOf(m, j, r - 1)
             \o (IF hit = <<>> THEN <<>> ELSE << <<r, hit[1][2]>> >>)

\* m.T of a sparse matrix of ncols columns.
Transpose(m, ncols) == Tabulate(LAMBDA j : ColumnOf(m, j, Len(m)), ncols)

\* ------------------------------------------------------------------ state
VARIABLES
    args,                  \* the parsed command line: inc_angle, max_iters
    cmp_mesh,              \* the mesh the run was given
    pc,                    \* the part of the script control is in
    edge_pos,              \* outer boundary edges the extraction loop has taken
    outer_bound_infos,     \* list[BoundaryEdgeInfo]
    heap,                  \* numpy arrays by address
    transition_sim,        \* ForwardSolve: [state, t]
    initial_state,         \* State: [pressure, flux], two addresses
    approx_solution,
    residual,
    search_dir,
    initial_resid_norm_sq,
    resid_norm_sq,
    control_energies,
    resid_norms,
    a_inner_prods,
    step_count,
    i,                     \* values the running for loop's range has yielded
    stdout,                \* the lines printed
    forward_energies,
    forward_state,
    in_u, in_v,            \* operands of the operator checks
    out                    \* results of the operator checks

progVars ==
    <<pc, edge_pos, heap, transition_sim, initial_state, approx_solution,
      residual, search_dir, initial_resid_norm_sq, resid_norm_sq,
      control_energies, resid_norms, a_inner_prods, step_count, i, stdout,
      forward_energies, forward_state>>

vars == <<args, cmp_mesh, outer_bound_infos, progVars, in_u, in_v, out>>

\* ----------------------------------------------------------------- meshes
\* A mesh is the part of pydec's simplicial complex the script reads: vertex
\* coordinates, the edges' vertex pairs, the face-edge incidence matrix d,
\* the diagonals of the Hodge stars, and the two edge groups.  Indices start
\* at 1.

\* The unit square cut by its diagonal; the bottom edge is the scatterer.
MeshSquare ==
    [vertices   |-> << <<0, 0>>, <<1, 0>>, <<1, 1>>, <<0, 1>> >>,
     simplices1 |-> << <<1, 2>>, <<1, 3>>, <<1, 4>>, <<2, 3>>, <<3, 4>> >>,
     d          |-> << <<1, -1, 0, 1, 0>>, <<0, 1, -1, 0, 1>> >>,
     star2      |-> <<1, 1>>,
     star1_inv  |-> <<1, 1, 1, 1, 1>>,
     inner      |-> <<1>>,
     outer      |-> <<3, 4, 5>>]

\* One triangle; two of its edges are the scatterer.
MeshTri ==
    [vertices   |-> << <<0, 0>>, <<1, 0>>, <<0, 1>> >>,
     simplices1 |-> << <<1, 2>>, <<1, 3>>, <<2, 3>> >>,
     d          |-> << <<1, -1, 1>> >>,
     star2      |-> <<1>>,
     star1_inv  |-> <<1, 1, 1>>,
     inner      |-> <<1, 3>>,
     outer      |-> <<2>>]

\* The square with the diagonal, an edge of two faces, in the outer group.
MeshShared == [MeshSquare EXCEPT !.outer = <<3, 2, 5>>]

\* The triangle with a fourth vertex and an edge of no face in the outer group.
MeshDangling ==
    [vertices   |-> << <<0, 0>>, <<1, 0>>, <<0, 1>>, <<2, 0>> >>,
     simplices1 |-> << <<1, 2>>, <<1, 3>>, <<2, 3>>, <<2, 4>> >>,
     d          |-> << <<1, -1, 1, 0>> >>,
     star2      |-> <<1>>,
     star1_inv  |-> <<1, 1, 1, 1>>,
     inner      |-> <<1, 3>>,
     outer      |-> <<4, 2>>]

WellFormedMeshes == {MeshSquare, MeshTri}
Meshes == WellFormedMeshes \cup {MeshShared, MeshDangling}

IncAngles == {0, 90}

inner_bound_edges == cmp_mesh.inner
outer_bound_edges == cmp_mesh.outer
num_faces == Len(cmp_mesh.d)
num_edges == Len(cmp_mesh.simplices1)

\* cmp_complex[1].d[:, edge_idx].nonzero()[0]
tri_indices(edge_idx) ==
    SelectSeq(Range(num_faces), LAMBDA f : cmp_mesh.d[f][edge_idx] # 0)

\* An assert that also lets an edge of several triangles through.
AssertSomeTriangle(tris) == Len(tris) >= 1

\* The assert of the extraction loop.
AssertOneTriangle(tris) == Len(tris) = 1

\* Vectors of the plane: np.dot, the difference, np.linalg.norm.
Dot2(a, b) == RAdd(RMul(a[1], b[1]), RMul(a[2], b[2]))
Sub2(a, b) == <<RSub(a[1], b[1]), RSub(a[2], b[2])>>
Norm2(l) == RSqrt(RAdd(RMul(l[1], l[1]), RMul(l[2], l[2])))

\* cmp_complex.vertices[v]
vertex(v) == <<R(cmp_mesh.vertices[v][1]), R(cmp_mesh.vertices[v][2])>>

edge_length(edge_idx) ==
    Norm2(Sub2(vertex(cmp_mesh.simplices1[edge_idx][2]),
               vertex(cmp_mesh.simplices1[edge_idx][1])))

BoundaryEdgeInfo(edge_idx) ==
    [dual_vert_idx |-> tri_indices(edge_idx)[1],
     orientation   |-> cmp_mesh.d[tri_indices(edge_idx)[1]][edge_idx],
     length        |-> edge_length(edge_idx)]

\* ------------------------------------------------- simulation parameters
inc_wavenumber == R(1)

\* Degrees to radians; np.pi is 2, so the result is in quarter turns.
inc_angle == RDiv(RMul(RMul(R(args.inc_angle), R(2)), np_pi), R(360))

inc_wave_dir(angle) == <<math_cos(angle), math_sin(angle)>>

Scale2(c, v) == <<RMul(c, v[1]), RMul(c, v[2])>>

inc_wave_vector == Scale2(inc_wavenumber, inc_wave_dir(inc_angle))

\* Time is counted in units of dt.
dt == R(1)

\* The program has 2.0 rad/s and dt = pi/120 s; here the angular velocity is
\* the one for which a period takes PeriodSteps steps of dt.
inc_angular_vel == RDiv(RMul(R(2), np_pi), R(PeriodSteps))

wave_period == RDiv(RMul(R(2), np_pi), inc_angular_vel)

steps_per_period == Ceil(RDiv(wave_period, dt))

\* Row f of dt * star * d, stored where d is.
p_step_row(f) ==
    LET cols == SelectSeq(Range(num_edges), LAMBDA e : cmp_mesh.d[f][e] # 0)
    IN  Tabulate(LAMBDA k : <<cols[k], RMul(RMul(dt, R(cmp_mesh.star2[f])),
                                            R(cmp_mesh.d[f][cols[k]]))>>,
                 Len(cols))

p_step_mat == Tabulate(p_step_row, num_faces)

\* Row e of dt * star_inv * d.T
q_step_row(e) ==
    LET cols == SelectSeq(Range(num_faces), LAMBDA f : cmp_mesh.d[f][e] # 0)
    IN  Tabulate(LAMBDA k : <<cols[k], RMul(RMul(dt, R(cmp_mesh.star1_inv[e])),
                                            R(cmp_mesh.d[cols[k]][e]))>>,
                 Len(cols))

q_step_mat == Tabulate(q_step_row, num_edges)

\* The literal 1e-5 of the parallel-edge test.
kdotl_eps == Lit(1, 100000)

\* Lines 167-172, of the locals bound before them.
flux_of_wave(wave_angle, kdotp, kdotl, kdotn) ==
    IF RLt(RAbs(kdotl), kdotl_eps)
    THEN RMul(RNeg(kdotn), math_sin(RSub(wave_angle, kdotp)))
    ELSE RMul(RDiv(kdotn, kdotl),
              RSub(math_cos(RSub(wave_angle, kdotp)),
                   math_cos(RSub(RSub(wave_angle, kdotp), kdotl))))

\* Lines 161-165, of the wave vector k, p[0] and l = p[1] - p[0].
flux_over_edge(t, k, p0, l) ==
    Bind(<<RMul(inc_angular_vel, t), Dot2(k, p0), Dot2(k, l),
           Dot2(k, <<l[2], RNeg(l[1])>>)>>,
         LAMBDA w : flux_of_wave(w[1], w[2], w[3], w[4]))

eval_inc_wave_flux(t, edge_vert_indices) ==
    Bind(<<inc_wave_vector, vertex(edge_vert_indices[1]),
           Sub2(vertex(edge_vert_indices[2]), vertex(edge_vert_indices[1]))>>,
         LAMBDA g : flux_over_edge(t, g[1], g[2], g[3]))

transition_time == RMul(R(5), wave_period)

transition_step_count == Ceil(RDiv(transition_time, dt))

\* Line 433, of sin_val.
eased(sin_val) == RMul(RSub(R(2), sin_val), sin_val)

easing(t) ==
    Bind(math_sin(RMul(RDiv(t, transition_time), RDiv(np_pi, R(2)))), eased)

\* The three callables passed as source_term_scaling.
Scalings == {"one", "zero", "easing"}

source_term_scaling(f, t) ==
    IF f = "easing" THEN easing(t) ELSE IF f = "one" THEN R(1) ELSE Zero

\* The literal (1e-2) ** 2.
stop_condition_sq == RMul(Lit(1, 100), Lit(1, 100))

\* ------------------------------------------------------------ State, heap
\* heap maps the address of each live numpy array to its contents; a State
\* is the pair of addresses of its pressure and flux arrays, so that two
\* States may share an array and an in-place update is seen through every
\* reference to the array.

EmptyHeap == <<>>

NewAddr(h) ==
    IF DOMAIN h = {} THEN 1
    ELSE 1 + CHOOSE a \in DOMAIN h : \A b \in DOMAIN h : b <= a

\* A numpy operation that returns a new array.
NewArray(h, vec) ==
    [h |-> h @@ (NewAddr(h) :> vec), a |-> NewAddr(h)]

\* State(pressure=..., flux=...) of two arrays.
State(h, pressure, flux) == [h |-> h, r |-> [pressure |-> pressure, flux |-> flux]]

\* State(...) whose two arguments are newly computed arrays.
NewState(h, pvec, qvec) ==
    LET p == NewArray(h, pvec)
        q == NewArray(p.h, qvec)
    IN  State(q.h, p.a, q.a)

\* A name no State is bound to yet.
Unbound == [pressure |-> 0, flux |-> 0]

\* A copy that shares the arrays of the State it copies.
State_alias(h, self) == State(h, self.pressure, self.flux)

State_copy(h, self) ==
    LET p == NewArray(h, h[self.pressure])
        q == NewArray(p.h, p.h[self.flux])
    IN  State(q.h, p.a, q.a)

State_scaled(h, self, s) ==
    NewState(h, VecScale(s, h[self.pressure]), VecScale(s, h[self.flux]))

State_dot(h, self, other) ==
    RAdd(np_dot(h[self.pressure], h[other.pressure]),
         np_dot(h[self.flux], h[other.flux]))

State_energy(h, self) == RMul(Lit(1, 2), State_dot(h, self, self))

State_add(h, self, other) ==
    NewState(h, VecAdd(h[self.pressure], h[other.pressure]),
                VecAdd(h[self.flux], h[other.flux]))

State_sub(h, self, other) ==
    NewState(h, VecSub(h[self.pressure], h[other.pressure]),
                VecSub(h[self.flux], h[other.flux]))

State_neg(h, self) ==
    NewState(h, VecNeg(h[self.pressure]), VecNeg(h[self.flux]))

\* The arrays of a State, by value.
Val(h, s) == [pressure |-> h[s.pressure], flux |-> h[s.flux]]

\* The arrays a set of States keeps alive; the rest is garbage.
Collect(h, states) ==
    LET live == UNION {{s.pressure, s.flux} : s \in states} \cap DOMAIN h
    IN  [a \in live |-> h[a]]

\* ------------------------------------------------------------ the solvers
\* A loop over inner_bound_edges that adds the source to the flux.
RECURSIVE InnerSourceAdded(_, _, _, _)
InnerSourceAdded(flux, t_at_w, scaling, k) ==
    IF k = 0 THEN flux
    ELSE [InnerSourceAdded(flux, t_at_w, scaling, k - 1)
            EXCEPT ![inner_bound_edges[k]] =
                RAdd(@, RMul(source_term_scaling(scaling, t_at_w),
                             eval_inc_wave_flux(t_at_w,
                                 cmp_mesh.simplices1[inner_bound_edges[k]])))]

\* The loop over inner_bound_edges of ForwardSolve.step, first k edges.
RECURSIVE InnerSource(_, _, _, _)
InnerSource(flux, t_at_w, scaling, k) ==
    IF k = 0 THEN flux
    ELSE [InnerSource(flux, t_at_w, scaling, k - 1)
            EXCEPT ![inner_bound_edges[k]] =
                RMul(source_term_scaling(scaling, t_at_w),
                     eval_inc_wave_flux(t_at_w,
                         cmp_mesh.simplices1[inner_bound_edges[k]]))]

IMin(a, b) == IF a < b THEN a ELSE b

\* zip(outer_bound_edges, outer_bound_infos) stops at the shorter list.
ZipLen == IMin(Len(outer_bound_edges), Len(outer_bound_infos))

\* The loop over the outer boundary of ForwardSolve.step, first k pairs.
RECURSIVE AbsorbForward(_, _, _)
AbsorbForward(flux, pressure, k) ==
    IF k = 0 THEN flux
    ELSE [AbsorbForward(flux, pressure, k - 1)
            EXCEPT ![outer_bound_edges[k]] =
                RMul(RMul(RNeg(pressure[outer_bound_infos[k].dual_vert_idx]),
                          outer_bound_infos[k].length),
                     R(outer_bound_infos[k].orientation))]

\* Line 310, in place.
forward_pressure(h, state) ==
    [h EXCEPT ![state.pressure] =
        VecAdd(h[state.pressure], SparseMul(p_step_mat, h[state.flux]))]

\* Line 313, in place.
forward_flux(h, state) ==
    [h EXCEPT ![state.flux] =
        VecAdd(h[state.flux], SparseMul(q_step_mat, h[state.pressure]))]

\* Lines 315-318, in place.
forward_inner(h, state, t_at_w, scaling) ==
    [h EXCEPT ![state.flux] =
        InnerSource(h[state.flux], t_at_w, scaling, Len(inner_bound_edges))]

\* Lines 321-326, in place.
forward_outer(h, state) ==
    [h EXCEPT ![state.flux] = AbsorbForward(h[state.flux], h[state.pressure], ZipLen)]

\* The heap and the solver after self.step(source_term_scaling=scaling).
ForwardSolve_step(h, self, scaling) ==
    [h |-> forward_outer(
               forward_inner(
                   forward_flux(forward_pressure(h, self.state), self.state),
                   self.state, RAdd(RAdd(self.t, dt), RMul(Lit(1, 2), dt)), scaling),
               self.state),
     self |-> [self EXCEPT !.t = RAdd(self.t, dt)]]

\* The loop over inner_bound_edges of BackwardSolve.step, first k edges.
RECURSIVE InnerZero(_, _)
InnerZero(flux, k) ==
    IF k = 0 THEN flux
    ELSE [InnerZero(flux, k - 1) EXCEPT ![inner_bound_edges[k]] = Zero]

\* A backward loop over the outer boundary with the sign of the forward one.
AbsorbNegated(flux, pressure, k) == AbsorbForward(flux, pressure, k)

\* The loop over the outer boundary of BackwardSolve.step, first k pairs.
RECURSIVE AbsorbBackward(_, _, _)
AbsorbBackward(flux, pressure, k) ==
    IF k = 0 THEN flux
    ELSE [AbsorbBackward(flux, pressure, k - 1)
            EXCEPT ![outer_bound_edges[k]] =
                RMul(RMul(pressure[outer_bound_infos[k].dual_vert_idx],
                          outer_bound_infos[k].length),
                     R(outer_bound_infos[k].orientation))]

\* Line 336, in place.
backward_flux(h, state) ==
    [h EXCEPT ![state.flux] =
        VecAdd(h[state.flux],
               SparseMul(Transpose(p_step_mat, num_edges), h[state.pressure]))]

\* Lines 338-339, in place.
backward_inner(h, state) ==
    [h EXCEPT ![state.flux] = InnerZero(h[state.flux], Len(inner_bound_edges))]

\* Lines 342-347, in place.
backward_outer(h, state) ==
    [h EXCEPT ![state.flux] = AbsorbBackward(h[state.flux], h[state.pressure], ZipLen)]

\* Line 349, in place.
backward_pressure(h, state) ==
    [h EXCEPT ![state.pressure] =
        VecAdd(h[state.pressure],
               SparseMul(Transpose(q_step_mat, num_faces), h[state.flux]))]

\* The heap and the solver after self.step().
BackwardSolve_step(h, self) ==
    [h |-> backward_pressure(
               backward_outer(
                   backward_inner(backward_flux(h, self.state), self.state),
                   self.state),
               self.state),
     self |-> self]

\* ForwardSolve(state=...) with the default t
ForwardSolve(state) == [state |-> state, t |-> Zero]

BackwardSolve(state) == [state |-> state]

\* sim.step(source_term_scaling=scaling) of a solver and its heap
forward_stepped(run, scaling) == ForwardSolve_step(run.h, run.self, scaling)

backward_stepped(run) == BackwardSolve_step(run.h, run.self)

\* for _ in range(k): sim.step(source_term_scaling=scaling)
RECURSIVE ForwardSteps(_, _, _, _)
ForwardSteps(h, sim, scaling, k) ==
    IF k <= 0 THEN [h |-> h, self |-> sim]
    ELSE Bind(ForwardSteps(h, sim, scaling, k - 1),
              LAMBDA run : forward_stepped(run, scaling))

\* for _ in range(k): sim.step()
RECURSIVE BackwardSteps(_, _, _)
BackwardSteps(h, sim, k) ==
    IF k <= 0 THEN [h |-> h, self |-> sim]
    ELSE Bind(BackwardSteps(h, sim, k - 1), LAMBDA run : backward_stepped(run))

\* ---------------------------------------------- gradient, control energy
\* compute_cost_gradient reads top to bottom: each operator binds the locals
\* of some lines and hands them to the operator of the lines after.  The
\* result also names the two solvers the call created.

\* Lines 399-402.
gradient_result(sim_fwd, fwd_diff, sim_bwd, gradient) ==
    [h |-> gradient.h, gradient |-> gradient.r, forward_diff |-> fwd_diff,
     sim_fwd |-> sim_fwd, sim_bwd |-> sim_bwd]

\* Line 400, of final_bwd_state.
gradient_from_final(sim_fwd, fwd_diff, sim_bwd, final_bwd_state) ==
    Bind(State_sub(final_bwd_state.h, final_bwd_state.r, fwd_diff),
         LAMBDA gradient : gradient_result(sim_fwd, fwd_diff, sim_bwd, gradient))

\* Lines 394-397, of the backward solver after its steps.
gradient_after_backward(sim_fwd, fwd_diff, bwd) ==
    Bind(NewState(bwd.h,
                  VecNeg(bwd.h[bwd.self.state.pressure]),
                  VecSub(VecNeg(bwd.h[bwd.self.state.flux]),
                         SparseMul(Transpose(p_step_mat, num_edges),
                                   bwd.h[bwd.self.state.pressure]))),
         LAMBDA final_bwd_state :
             gradient_from_final(sim_fwd, fwd_diff, bwd.self, final_bwd_state))

\* Lines 391-393, of bwd_init_state.
gradient_backward(sim_fwd, fwd_diff, bwd_init_copy) ==
    Bind(BackwardSteps(bwd_init_copy.h, BackwardSolve(bwd_init_copy.r),
                       steps_per_period - 1),
         LAMBDA bwd : gradient_after_backward(sim_fwd, fwd_diff, bwd))

\* Lines 385-391, of bwd_init_q and the new pressure array.
gradient_bwd_init(sim_fwd, fwd_diff, bwd_init_q, pressure) ==
    Bind(State_copy(pressure.h, [pressure |-> pressure.a, flux |-> bwd_init_q]),
         LAMBDA bwd_init_copy : gradient_backward(sim_fwd, fwd_diff, bwd_init_copy))

\* Line 387, of bwd_init_q.
gradient_bwd_pressure(sim_fwd, fwd_diff, bwd_init_q) ==
    Bind(NewArray(bwd_init_q.h,
                  VecSub(SparseMul(Transpose(q_step_mat, num_faces),
                                   bwd_init_q.h[bwd_init_q.a]),
                         bwd_init_q.h[fwd_diff.pressure])),
         LAMBDA pressure : gradient_bwd_init(sim_fwd, fwd_diff, bwd_init_q.a, pressure))

\* Line 384, of fwd_diff.
gradient_from_diff(sim_fwd, fwd_diff) ==
    Bind(NewArray(fwd_diff.h, VecNeg(fwd_diff.h[fwd_diff.r.flux])),
         LAMBDA bwd_init_q : gradient_bwd_pressure(sim_fwd, fwd_diff.r, bwd_init_q))

\* Lines 380-383, of the forward solver after its steps.
gradient_after_forward(fwd, initial) ==
    Bind(State_sub(fwd.h, fwd.self.state, initial),
         LAMBDA fwd_diff : gradient_from_diff(fwd.self, fwd_diff))

\* Lines 376-379, of initial_state.copy().
gradient_forward(c, source_scaling) ==
    ForwardSteps(c.h, ForwardSolve(c.r), source_scaling, steps_per_period)

\* A gradient that keeps the source on whatever use_source_terms is.
gradient_with_source(h, initial, use_source_terms) ==
    Bind(gradient_forward(State_copy(h, initial), "one"),
         LAMBDA fwd : gradient_after_forward(fwd, initial))

compute_cost_gradient(h, initial, use_source_terms) ==
    Bind(gradient_forward(State_copy(h, initial),
                          IF use_source_terms THEN "one" ELSE "zero"),
         LAMBDA fwd : gradient_after_forward(fwd, initial))

\* Line 411, of the solver and the difference.  The result also names the
\* solver the call created.
energy_result(period_sim, diff) ==
    [h |-> diff.h, energy |-> State_energy(diff.h, diff.r), period_sim |-> period_sim]

\* Line 411, of the solver after its steps.
energy_after_period(run, state) ==
    Bind(State_sub(run.h, run.self.state, state),
         LAMBDA diff : energy_result(run.self, diff))

\* Lines 408-410, of state.copy().
period_of(c) == ForwardSteps(c.h, ForwardSolve(c.r), "one", steps_per_period)

compute_control_energy(h, state) ==
    Bind(period_of(State_copy(h, state)),
         LAMBDA run : energy_after_period(run, state))

\* ------------------------------------------- the operators, one at a time
\* States by value: [pressure, flux], two arrays.
ZeroState == [pressure |-> np_zeros(num_faces), flux |-> np_zeros(num_edges)]

Amps == {-1, 1}

\* The zero state and the multiples of the unit states.
SparseStates ==
    {ZeroState}
      \cup {[ZeroState EXCEPT !.pressure[f] = R(a)] : f \in 1..num_faces, a \in Amps}
      \cup {[ZeroState EXCEPT !.flux[e] = R(a)] : e \in 1..num_edges, a \in Amps}

\* States without a zero entry.
DenseStates ==
    {[pressure |-> Tabulate(LAMBDA f : R(a), num_faces),
      flux     |-> Tabulate(LAMBDA e : R(b * e), num_edges)] : a \in Amps, b \in Amps}

TestStates == SparseStates \cup DenseStates

\* The whole extraction loop on a mesh that passes its assert.
ExtractedInfos ==
    Tabulate(LAMBDA k : BoundaryEdgeInfo(outer_bound_edges[k]), Len(outer_bound_edges))

\* The script's names before the script has run.
NamesUnbound ==
    /\ heap = EmptyHeap
    /\ transition_sim = ForwardSolve(Unbound)
    /\ initial_state = Unbound
    /\ approx_solution = Unbound
    /\ residual = Unbound
    /\ search_dir = Unbound
    /\ initial_resid_norm_sq = Zero
    /\ resid_norm_sq = Zero
    /\ control_energies = <<>>
    /\ resid_norms = <<>>
    /\ a_inner_prods = <<>>
    /\ step_count = 0
    /\ i = 0
    /\ stdout = <<>>
    /\ forward_energies = <<>>
    /\ forward_state = Unbound

\* An operator check runs no line of the script.
ProgramIdle == pc = "operators" /\ edge_pos = 0 /\ NamesUnbound

\* Start times of the stepped solver, in steps.
StartSteps == {0, 1}

\* A State of new arrays on an empty heap.
Fresh(x) == NewState(EmptyHeap, x.pressure, x.flux)

\* The solver and its State by value.
solver_value(run) == [state |-> Val(run.h, run.self.state), t |-> run.self.t]

solver_at(s, t) == [h |-> s.h, self |-> [state |-> s.r, t |-> t]]

\* ForwardSolve(state=x, t=t).step(scaling) on arrays of its own, by value.
ForwardStepOf(x, t, scaling) ==
    solver_value(forward_stepped(solver_at(Fresh(x), t), scaling))

state_value(run) == Val(run.h, run.self.state)

solver_of(s) == [h |-> s.h, self |-> BackwardSolve(s.r)]

\* BackwardSolve(state=x).step() on arrays of its own, by value.
BackwardStepOf(x) == state_value(backward_stepped(solver_of(Fresh(x))))

dot_of(a, b) == State_dot(b.h, a.r, b.r)

beside(a, y) == dot_of(a, NewState(a.h, y.pressure, y.flux))

\* x.dot(y) by value.
DotOf(x, y) == beside(Fresh(x), y)

InitStep ==
    /\ args \in [inc_angle : IncAngles, max_iters : {0}]
    /\ cmp_mesh \in WellFormedMeshes
    /\ outer_bound_infos = ExtractedInfos
    /\ ProgramIdle
    /\ in_u \in TestStates
    /\ in_v \in SparseStates
    /\ out = [fwd |-> <<>>, bwd |-> <<>>]

\* One forward step from in_u.
ApplyForward ==
    /\ out.fwd = <<>>
    /\ \E scaling \in Scalings, k \in StartSteps :
       \E r \in {ForwardStepOf(in_u, RMul(R(k), dt), scaling)} :
          out' = [out EXCEPT !.fwd = <<[scaling |-> scaling,
                                        t0      |-> RMul(R(k), dt),
                                        state   |-> r.state,
                                        t       |-> r.t]>>]
    /\ UNCHANGED <<args, cmp_mesh, outer_bound_infos, progVars, in_u, in_v>>

\* One backward step from in_v.
ApplyBackward ==
    /\ out.bwd = <<>>
    /\ out' = [out EXCEPT !.bwd = <<BackwardStepOf(in_v)>>]
    /\ UNCHANGED <<args, cmp_mesh, outer_bound_infos, progVars, in_u, in_v>>

NextStep == ApplyForward \/ ApplyBackward

SpecStep == InitStep /\ [][NextStep]_vars

\* The face an outer boundary edge belongs to, by the incidence matrix.
FaceOf(edge_idx) == CHOOSE f \in 1..num_faces : cmp_mesh.d[f][edge_idx] # 0

\* C9: after ForwardSolve.step, t has grown by exactly dt; the flux of every
\* inner boundary edge is source_term_scaling(t_half) times the incoming wave
\* flux of the edge at t_half = new t + dt/2, whatever it was before (so 0
\* under the zero scaling); and the flux of every outer boundary edge is minus
\* the updated pressure of its face times its length times its orientation.
C9_ForwardStepBoundaries ==
    \A k \in 1..Len(out.fwd) :
        LET r      == out.fwd[k]
            t_half == RAdd(r.t, RMul(Lit(1, 2), dt))
        IN  /\ r.t = RAdd(r.t0, dt)
            /\ \A j \in 1..Len(inner_bound_edges) :
                  LET e == inner_bound_edges[j]
                  IN  /\ r.state.flux[e] =
                            RMul(source_term_scaling(r.scaling, t_half),
                                 eval_inc_wave_flux(t_half, cmp_mesh.simplices1[e]))
                      /\ r.scaling = "zero" => r.state.flux[e] = Zero
            /\ \A j \in 1..Len(outer_bound_edges) :
                  LET e == outer_bound_edges[j]
                  IN  r.state.flux[e] =
                         RMul(RMul(RNeg(r.state.pressure[FaceOf(e)]), edge_length(e)),
                              R(cmp_mesh.d[FaceOf(e)][e]))

\* A forward step under the unit scaling that replaced a non-zero flux of an
\* inner edge by a non-zero source flux, and wrote a non-zero outer flux.
C9_Witness ==
    /\ out.fwd # <<>>
    /\ out.fwd[1].scaling = "one"
    /\ \E j \in 1..Len(inner_bound_edges) :
          /\ in_u.flux[inner_bound_edges[j]] # Zero
          /\ out.fwd[1].state.flux[inner_bound_edges[j]] # Zero
    /\ \E j \in 1..Len(outer_bound_edges) :
          out.fwd[1].state.flux[outer_bound_edges[j]] # Zero

\* C10: after BackwardSolve.step, the flux of every inner boundary edge is 0,
\* the flux of every outer boundary edge is plus the pressure the step began
\* with at its face times its length times its orientation, and the new
\* pressure is the old pressure plus q_step_mat.T times the flux after the
\* two overwrites.
C10_BackwardStepBoundaries ==
    \A k \in 1..Len(out.bwd) :
        LET r == out.bwd[k]
        IN  /\ \A j \in 1..Len(inner_bound_edges) :
                  r.flux[inner_bound_edges[j]] = Zero
            /\ \A j \in 1..Len(outer_bound_edges) :
                  LET e == outer_bound_edges[j]
                  IN  r.flux[e] =
                         RMul(RMul(in_v.pressure[FaceOf(e)], edge_length(e)),
                              R(cmp_mesh.d[FaceOf(e)][e]))
            /\ r.pressure =
                  VecAdd(in_v.pressure,
                         SparseMul(Transpose(q_step_mat, num_faces), r.flux))

\* A backward step from a non-zero pressure that wrote a non-zero outer flux
\* and changed the pressure.
C10_Witness ==
    /\ out.bwd # <<>>
    /\ in_v.pressure # ZeroState.pressure
    /\ out.bwd[1].pressure # in_v.pressure
    /\ \E j \in 1..Len(outer_bound_edges) :
          out.bwd[1].flux[outer_bound_edges[j]] # Zero

\* C1: with the source off, one forward step and one backward step are
\* transposes of each other: ForwardStep(u).dot(v) = u.dot(BackwardStep(v)).
C1_StepsAreTransposes ==
    (out.fwd # <<>> /\ out.bwd # <<>> /\ out.fwd[1].scaling = "zero")
        => DotOf(out.fwd[1].state, in_v) = DotOf(in_u, out.bwd[1])

\* compute_cost_gradient(x, use_source_terms).gradient on arrays of its own,
\* by value.
gradient_value(g) == Val(g.h, g.gradient)

gradient_on(s, use_source_terms) == compute_cost_gradient(s.h, s.r, use_source_terms)

GradientOf(x, use_source_terms) ==
    gradient_value(Bind(Fresh(x), LAMBDA s : gradient_on(s, use_source_terms)))

\* x + y and x - y by value.
SumOf(x, y) ==
    [pressure |-> VecAdd(x.pressure, y.pressure), flux |-> VecAdd(x.flux, y.flux)]

DiffOf(x, y) ==
    [pressure |-> VecSub(x.pressure, y.pressure), flux |-> VecSub(x.flux, y.flux)]

InitGrad ==
    /\ args \in [inc_angle : IncAngles, max_iters : {0}]
    /\ cmp_mesh \in WellFormedMeshes
    /\ outer_bound_infos = ExtractedInfos
    /\ ProgramIdle
    /\ in_u \in DenseStates \cup {ZeroState}
    /\ in_v \in SparseStates
    /\ out = [affine |-> <<>>, linear |-> <<>>]

\* The gradient with the source on at in_u and at in_u + in_v, beside the
\* gradient with the source off.
EvalWithSource ==
    /\ out.affine = <<>>
    /\ out' = [out EXCEPT !.affine =
                  <<[at_x       |-> GradientOf(in_u, TRUE),
                     at_sum     |-> GradientOf(SumOf(in_u, in_v), TRUE),
                     at_zero    |-> GradientOf(ZeroState, TRUE),
                     lin_x      |-> GradientOf(in_u, FALSE),
                     lin_w      |-> GradientOf(in_v, FALSE),
                     lin_zero   |-> GradientOf(ZeroState, FALSE)]>>]
    /\ UNCHANGED <<args, cmp_mesh, outer_bound_infos, progVars, in_u, in_v>>

\* The gradient with the source off at in_u and at in_v.
EvalWithoutSource ==
    /\ out.linear = <<>>
    /\ out' = [out EXCEPT !.linear =
                  <<[a_u |-> GradientOf(in_u, FALSE),
                     a_v |-> GradientOf(in_v, FALSE)]>>]
    /\ UNCHANGED <<args, cmp_mesh, outer_bound_infos, progVars, in_u, in_v>>

NextGrad == EvalWithSource \/ EvalWithoutSource

SpecGrad == InitGrad /\ [][NextGrad]_vars

\* C3: the gradient is affine in the state with linear part A, the gradient
\* with the source off: gradient(x + w, True) - gradient(x, True) is
\* gradient(w, False); gradient(x, True) - gradient(x, False) is the same
\* state for every x (the one at x = 0); and gradient(0, False) is 0.
C3_GradientIsAffine ==
    \A k \in 1..Len(out.affine) :
        LET g == out.affine[k]
        IN  /\ DiffOf(g.at_sum, g.at_x) = g.lin_w
            /\ DiffOf(g.at_x, g.lin_x) = DiffOf(g.at_zero, g.lin_zero)
            /\ g.lin_zero = ZeroState

\* Gradients taken at a non-zero x and a non-zero w, under a source that
\* makes the constant part non-zero.
C3_Witness ==
    /\ out.affine # <<>>
    /\ in_u # ZeroState
    /\ in_v # ZeroState
    /\ out.affine[1].lin_w # ZeroState
    /\ out.affine[1].at_zero # ZeroState
    /\ out.affine[1].at_x # out.affine[1].lin_x

\* C2: A(w) = compute_cost_gradient(w, False).gradient is symmetric,
\* A(u).dot(v) = u.dot(A(v)), and positive semi-definite, A(u).dot(u) >= 0.
C2_OperatorSymmetricPSD ==
    \A k \in 1..Len(out.linear) :
        LET g == out.linear[k]
        IN  /\ DotOf(g.a_u, in_v) = DotOf(in_u, g.a_v)
            /\ RLe(Zero, DotOf(g.a_u, in_u))
            /\ RLe(Zero, DotOf(g.a_v, in_v))

\* ------------------------------------------------------------- the script
\* The script from the extraction of the outer boundary (line 107) to the
\* plots, on a mesh and a command line given to it.

Init ==
    /\ args \in [inc_angle : IncAngles, max_iters : 0..MaxIters]
    /\ cmp_mesh \in Meshes
    /\ outer_bound_infos = <<>>
    /\ pc = "extract"
    /\ edge_pos = 0
    /\ NamesUnbound
    /\ in_u = <<>>
    /\ in_v = <<>>
    /\ out = <<>>

\* One round of the loop of lines 108-119; a failed assert ends the run.
ExtractEdge ==
    /\ pc = "extract"
    /\ edge_pos < Len(outer_bound_edges)
    /\ LET edge_idx == outer_bound_edges[edge_pos + 1]
       IN  IF AssertOneTriangle(tri_indices(edge_idx))
           THEN /\ outer_bound_infos' =
                       Append(outer_bound_infos, BoundaryEdgeInfo(edge_idx))
                /\ edge_pos' = edge_pos + 1
                /\ pc' = pc
           ELSE /\ pc' = "AssertionError"
                /\ UNCHANGED <<outer_bound_infos, edge_pos>>
    /\ UNCHANGED <<args, cmp_mesh, heap, transition_sim, initial_state,
                   approx_solution, residual, search_dir, initial_resid_norm_sq,
                   resid_norm_sq, control_energies, resid_norms, a_inner_prods,
                   step_count, i, stdout, forward_energies, forward_state,
                   in_u, in_v, out>>

\* The States the script's names are bound to.
Roots(sim, s1, s2, s3, s4, s5) == {sim.state, s1, s2, s3, s4, s5}

\* Lines 125-428: the parameters, zero_state and the easing solver.
BeginEasing ==
    /\ pc = "extract"
    /\ edge_pos = Len(outer_bound_edges)
    /\ \E zero_state \in {NewState(heap, np_zeros(num_faces), np_zeros(num_edges))} :
       \E c \in {State_copy(zero_state.h, zero_state.r)} :
          /\ transition_sim' = ForwardSolve(c.r)
          /\ heap' = Collect(c.h, {c.r})
    /\ i' = 0
    /\ pc' = "easing"
    /\ UNCHANGED <<args, cmp_mesh, outer_bound_infos, edge_pos, initial_state,
                   approx_solution, residual, search_dir, initial_resid_norm_sq,
                   resid_norm_sq, control_energies, resid_norms, a_inner_prods,
                   step_count, stdout, forward_energies, forward_state,
                   in_u, in_v, out>>

\* One round of the loop of lines 436-437.
EaseStep ==
    /\ pc = "easing"
    /\ i < transition_step_count
    /\ \E r \in {ForwardSolve_step(heap, transition_sim, "easing")} :
          /\ heap' = r.h
          /\ transition_sim' = r.self
    /\ i' = i + 1
    /\ UNCHANGED <<args, cmp_mesh, outer_bound_infos, pc, edge_pos, initial_state,
                   approx_solution, residual, search_dir, initial_resid_norm_sq,
                   resid_norm_sq, control_energies, resid_norms, a_inner_prods,
                   step_count, stdout, forward_energies, forward_state,
                   in_u, in_v, out>>

\* math.sqrt raises ValueError below zero; it returns NaN for NaN.
math_sqrt_raises(x) == RLt(x, Zero)

\* Lines 439-450 read top to bottom: each operator binds the names of some
\* lines and hands them to the operator of the lines after.  The result is
\* the names bound before the loop, and the heap.
start_result(init, x, r, norm_sq, w, en) ==
    [initial_state   |-> init,
     approx_solution |-> x,
     residual        |-> r,
     initial_resid_norm_sq |-> norm_sq,
     search_dir      |-> w,
     control_energy  |-> en.energy,
     h |-> Collect(en.h, Roots(transition_sim, init, x, r, w, forward_state))]

\* Line 450, of search_dir.
start_energy(init, x, r, norm_sq, w) ==
    start_result(init, x, r, norm_sq, w.r, compute_control_energy(w.h, x))

\* Lines 446-448, of residual.
start_direction(init, x, r) ==
    start_energy(init, x, r.r, State_dot(r.h, r.r, r.r), State_copy(r.h, r.r))

\* Line 445, of the gradient.
start_residual(init, x, g) == start_direction(init, x, State_neg(g.h, g.gradient))

\* Line 445, of approx_solution.
start_gradient(init, x) ==
    start_residual(init, x.r, compute_cost_gradient(x.h, x.r, TRUE))

\* Lines 439-444.
cg_start == start_gradient(transition_sim.state, State_copy(heap, transition_sim.state))

\* Lines 439-459: the start of the conjugate gradient optimization.
BeginCG ==
    /\ pc = "easing"
    /\ i = transition_step_count
    /\ \E b \in {cg_start} :
          /\ initial_state' = b.initial_state
          /\ approx_solution' = b.approx_solution
          /\ residual' = b.residual
          /\ initial_resid_norm_sq' = b.initial_resid_norm_sq
          /\ resid_norm_sq' = b.initial_resid_norm_sq
          /\ search_dir' = b.search_dir
          /\ control_energies' = <<b.control_energy>>
          /\ heap' = b.h
          /\ IF math_sqrt_raises(b.initial_resid_norm_sq)
             THEN /\ pc' = "ValueError"
                  /\ UNCHANGED <<resid_norms, a_inner_prods, stdout, step_count, i>>
             ELSE /\ resid_norms' = <<RSqrt(b.initial_resid_norm_sq)>>
                  /\ a_inner_prods' = <<Zero>>
                  /\ stdout' = Append(stdout, "Computing exact controllability solution...")
                  /\ step_count' = 0
                  /\ i' = 0
                  /\ pc' = "cg"
    /\ UNCHANGED <<args, cmp_mesh, outer_bound_infos, edge_pos, transition_sim,
                   forward_energies, forward_state, in_u, in_v, out>>

\* The loop of lines 460-479 has left through its break.
Broke == stdout # <<>> /\ stdout[Len(stdout)] = "Converged within step limit!"

\* a + b.scaled(s) and a - b.scaled(s)
add_to(a, scaled) == State_add(scaled.h, a, scaled.r)
sub_from(a, scaled) == State_sub(scaled.h, a, scaled.r)
add_scaled(h, a, b, s) == add_to(a, State_scaled(h, b, s))
sub_scaled(h, a, b, s) == sub_from(a, State_scaled(h, b, s))

\* Lines 461-474 read top to bottom, as lines 439-450 above.  The result is
\* the names a round of the loop binds, and the heap.
round_result(resid_update, x, r, norm_sq, w, en) ==
    [approx_solution |-> x,
     residual        |-> r,
     resid_norm_sq   |-> norm_sq,
     search_dir      |-> w,
     control_energy  |-> en.energy,
     a_inner_prod    |-> State_dot(en.h, resid_update, w),
     h |-> Collect(en.h, Roots(transition_sim, initial_state, x, r, w, forward_state))]

\* Line 472, of the new search_dir.
round_energy(resid_update, x, r, norm_sq, w) ==
    round_result(resid_update, x, r, norm_sq, w.r, compute_control_energy(w.h, x))

\* Lines 467-469, of next_resid_norm_sq.
round_direction(resid_update, x, r, next_resid_norm_sq) ==
    round_energy(resid_update, x, r.r, next_resid_norm_sq,
                 add_scaled(r.h, r.r, search_dir,
                            RDiv(next_resid_norm_sq, resid_norm_sq)))

\* Line 466, of the new residual.
round_norm(resid_update, x, r) ==
    round_direction(resid_update, x, r, State_dot(r.h, r.r, r.r))

\* Line 464, of the new approx_solution.
round_residual(resid_update, solution_update_param, x) ==
    round_norm(resid_update, x.r,
               sub_scaled(x.h, residual, resid_update, solution_update_param))

\* Line 463, of solution_update_param.
round_solution(g, solution_update_param) ==
    round_residual(g.gradient, solution_update_param,
                   add_scaled(g.h, approx_solution, search_dir, solution_update_param))

\* Line 462, of the gradient.
round_param(g) ==
    round_solution(g, RDiv(resid_norm_sq, State_dot(g.h, g.gradient, search_dir)))

\* Line 461.
cg_round == round_param(compute_cost_gradient(heap, search_dir, FALSE))

\* The test of line 477.
converged(norm_sq) ==
    RLt(RDiv(norm_sq, initial_resid_norm_sq), stop_condition_sq)

\* A range that runs one round more.
in_range_inclusive(k, n) == k <= n

\* k in range(n), of a k counted up from 0.
in_range(k, n) == k < n

\* One round of the loop of lines 460-479.
CGIterate ==
    /\ pc = "cg"
    /\ ~Broke
    /\ in_range(i, args.max_iters)
    /\ \E b \in {cg_round} :
          /\ approx_solution' = b.approx_solution
          /\ residual' = b.residual
          /\ resid_norm_sq' = b.resid_norm_sq
          /\ search_dir' = b.search_dir
          /\ control_energies' = Append(control_energies, b.control_energy)
          /\ heap' = b.h
          /\ IF math_sqrt_raises(b.resid_norm_sq)
             THEN /\ pc' = "ValueError"
                  /\ UNCHANGED <<resid_norms, a_inner_prods, step_count, stdout>>
             ELSE /\ resid_norms' = Append(resid_norms, RSqrt(b.resid_norm_sq))
                  /\ a_inner_prods' = Append(a_inner_prods, b.a_inner_prod)
                  /\ step_count' = step_count + 1
                  /\ stdout' = IF converged(b.resid_norm_sq)
                               THEN Append(stdout, "Converged within step limit!")
                               ELSE stdout
                  /\ pc' = pc
    /\ i' = i + 1
    /\ UNCHANGED <<args, cmp_mesh, outer_bound_infos, edge_pos, transition_sim,
                   initial_state, initial_resid_norm_sq, forward_energies,
                   forward_state, in_u, in_v, out>>

\* Lines 481-486, after the break or after the range has run out.
BeginReference ==
    /\ pc = "cg"
    /\ Broke \/ ~in_range(i, args.max_iters)
    /\ \E c \in {State_copy(heap, initial_state)} :
          /\ forward_state' = c.r
          /\ heap' = Collect(c.h, Roots(transition_sim, initial_state,
                                        approx_solution, residual, search_dir, c.r))
    /\ stdout' = Append(stdout, "Computing reference forward solution...")
    /\ forward_energies' = <<>>
    /\ i' = 0
    /\ pc' = "reference"
    /\ UNCHANGED <<args, cmp_mesh, outer_bound_infos, edge_pos, transition_sim,
                   initial_state, approx_solution, residual, search_dir,
                   initial_resid_norm_sq, resid_norm_sq, control_energies,
                   resid_norms, a_inner_prods, step_count, in_u, in_v, out>>

\* A range of one entry per iteration, without the initial one.
x_axis_short(count) == count

\* range(step_count + 1) of the reference loop and of the plots' x axis.
x_axis_len(count) == count + 1

\* Lines 491-492, of the solver and the difference.
reference_result(period_sim, diff) ==
    [forward_energy |-> State_energy(diff.h, diff.r),
     forward_state  |-> period_sim.state,
     h |-> Collect(diff.h, Roots(transition_sim, initial_state, approx_solution,
                                 residual, search_dir, period_sim.state))]

\* Line 491, of the solver after its steps.
reference_energy(run) ==
    reference_result(run.self, State_sub(run.h, run.self.state, forward_state))

\* Lines 488-490: the names a round of the reference loop binds, and the heap.
reference_round == reference_energy(period_of(State_copy(heap, forward_state)))

\* One round of the loop of lines 487-492.
ReferencePeriod ==
    /\ pc = "reference"
    /\ in_range(i, x_axis_len(step_count))
    /\ \E b \in {reference_round} :
          /\ forward_energies' = Append(forward_energies, b.forward_energy)
          /\ forward_state' = b.forward_state
          /\ heap' = b.h
    /\ i' = i + 1
    /\ UNCHANGED <<args, cmp_mesh, outer_bound_infos, pc, edge_pos, transition_sim,
                   initial_state, approx_solution, residual, search_dir,
                   initial_resid_norm_sq, resid_norm_sq, control_energies,
                   resid_norms, a_inner_prods, step_count, stdout, in_u, in_v, out>>

\* Lines 498-523: ax.plot raises ValueError when x and y differ in length.
DrawResults ==
    /\ pc = "reference"
    /\ ~in_range(i, x_axis_len(step_count))
    /\ pc' = IF \A trace \in {control_energies, forward_energies, resid_norms,
                              a_inner_prods} : Len(trace) = step_count + 1
             THEN "done"
             ELSE "ValueError"
    /\ UNCHANGED <<args, cmp_mesh, outer_bound_infos, edge_pos, heap,
                   transition_sim, initial_state, approx_solution, residual,
                   search_dir, initial_resid_norm_sq, resid_norm_sq,
                   control_energies, resid_norms, a_inner_prods, step_count, i,
                   stdout, forward_energies, forward_state, in_u, in_v, out>>

Next ==
    \/ ExtractEdge
    \/ BeginEasing
    \/ EaseStep
    \/ BeginCG
    \/ CGIterate
    \/ BeginReference
    \/ ReferencePeriod
    \/ DrawResults

Spec == Init /\ [][Next]_vars

\* The script has a statement left to run.
Running == pc \in {"extract", "easing", "cg", "reference"}

\* What every step of the script does to its position: each action of Next
\* moves pc, i or edge_pos this way, and only a running script can.
Advance ==
    /\ Running
    /\ pc' \in {"extract", "easing", "cg", "reference", "done",
                "AssertionError", "ValueError"}
    /\ i' \in {0, i + 1}
    /\ edge_pos' \in {edge_pos, edge_pos + 1}

\* The script runs on: no statement waits for anything.
FairSpec == Spec /\ WF_<<pc, i, edge_pos>>(Advance)

\* ------------------------------------------------- properties of the script
\* The faces an edge is part of.
FacesOf(edge_idx) == {f \in 1..num_faces : cmp_mesh.d[f][edge_idx] # 0}

\* Some edge of the outer group is part of no face or of several.
Malformed ==
    \E k \in 1..Len(outer_bound_edges) :
        Cardinality(FacesOf(outer_bound_edges[k])) # 1

\* C8: the extraction stops with an AssertionError at the first outer
\* boundary edge that is part of no face or of several; the infos it has
\* stored are one per edge, in the order of outer_bound_edges, each with the
\* edge's only face and the incidence entry, -1 or 1, of that face and edge;
\* once it is over there is one per outer boundary edge; and on a malformed
\* mesh the script gets no further, no State is made and no step is taken.
C8_ExtractionAbortsOrCompletes ==
    /\ Len(outer_bound_infos) = edge_pos
    /\ \A k \in 1..Len(outer_bound_infos) :
          /\ FacesOf(outer_bound_edges[k]) = {outer_bound_infos[k].dual_vert_idx}
          /\ outer_bound_infos[k].orientation =
                cmp_mesh.d[outer_bound_infos[k].dual_vert_idx][outer_bound_edges[k]]
          /\ outer_bound_infos[k].orientation \in {-1, 1}
    /\ pc = "AssertionError" =>
          Cardinality(FacesOf(outer_bound_edges[edge_pos + 1])) # 1
    /\ pc \notin {"extract", "AssertionError"} => edge_pos = Len(outer_bound_edges)
    /\ Malformed => pc \in {"extract", "AssertionError"} /\ NamesUnbound

\* The extraction has stored the info of one edge and stopped at the next.
C8_Witness ==
    /\ pc = "AssertionError"
    /\ edge_pos = 1
    /\ Len(outer_bound_infos) = 1

AllFinite(vec) == \A k \in 1..Len(vec) : IsFinite(vec[k])

StateFinite(s) == AllFinite(heap[s.pressure]) /\ AllFinite(heap[s.flux])

\* The conjugate gradient loop has been entered.
InLoopOrAfter == pc \in {"cg", "reference", "done"}

\* C4: no NaN and no Inf gets into approx_solution, residual, search_dir or
\* the recorded traces: a denominator near zero is caught before the division.
C4_DenominatorsGuarded ==
    InLoopOrAfter =>
        /\ StateFinite(approx_solution)
        /\ StateFinite(residual)
        /\ StateFinite(search_dir)
        /\ AllFinite(control_energies)
        /\ AllFinite(resid_norms)
        /\ AllFinite(a_inner_prods)

RatioBelowStop == step_count >= 1 /\ converged(resid_norm_sq)

\* C5: the conjugate gradient loop ends, whatever max_iters is: from between
\* two rounds the script gets to the reference run, and never to an error;
\* step_count is the number of rounds run and at most max_iters; a round is
\* run exactly when the ratio of line 477 was not below the stop condition
\* at the end of the round before and fewer than max_iters rounds have run;
\* leaving the loop changes neither step_count nor approx_solution.
C5_CGLoopTerminates ==
    /\ [](pc = "cg" => step_count = i /\ step_count <= args.max_iters)
    /\ [](pc # "ValueError")
    /\ [][pc = "cg" =>
            IF ~RatioBelowStop /\ step_count < args.max_iters
            THEN pc' = "cg" /\ step_count' = step_count + 1
            ELSE /\ pc' = "reference"
                 /\ step_count' = step_count
                 /\ Val(heap', approx_solution') = Val(heap, approx_solution)]_vars
    /\ (pc = "cg" ~> pc = "reference")

\* The loop was left through its break, before max_iters rounds had run.
C5_Witness ==
    /\ pc = "reference"
    /\ step_count >= 1
    /\ step_count < args.max_iters
    /\ RatioBelowStop

\* x.scaled(s) by value.
ScaledOf(x, s) ==
    [pressure |-> VecScale(s, x.pressure), flux |-> VecScale(s, x.flux)]

\* Lines 466-469 by value, of the new residual.
direction_by_value(x, r, w) ==
    [approx_solution |-> x,
     residual        |-> r,
     search_dir      |-> SumOf(r, ScaledOf(w, RDiv(DotOf(r, r), resid_norm_sq)))]

\* Lines 463-464 by value, of solution_update_param.
update_by_value(x, r, w, resid_update, param) ==
    Bind(DiffOf(r, ScaledOf(resid_update, param)),
         LAMBDA r2 : direction_by_value(SumOf(x, ScaledOf(w, param)), r2, w))

\* Lines 461-462 by value, of resid_update.
param_by_value(x, r, w, resid_update) ==
    Bind(RDiv(resid_norm_sq, DotOf(resid_update, w)),
         LAMBDA param : update_by_value(x, r, w, resid_update, param))

\* What lines 461-469 make of approx_solution, residual and search_dir when
\* every State has arrays of its own.
round_by_value(x, r, w) ==
    Bind(GradientOf(w, FALSE), LAMBDA resid_update : param_by_value(x, r, w, resid_update))

\* The three States of the loop, by value.
LoopStates(h, x, r, w) ==
    [approx_solution |-> Val(h, x), residual |-> Val(h, r), search_dir |-> Val(h, w)]

\* The arrays of the State of a solver.
ArraysOf(sim) == {sim.state.pressure, sim.state.flux}

\* g, the result of compute_cost_gradient(s, ...) on heap, has left every
\* array of heap as it was and made solvers on arrays of their own.
GradientKeeps(s, g) ==
    /\ \A a \in DOMAIN heap : g.h[a] = heap[a]
    /\ Val(g.h, s) = Val(heap, s)
    /\ (ArraysOf(g.sim_fwd) \cup ArraysOf(g.sim_bwd)) \cap DOMAIN heap = {}

\* The same of en, the result of compute_control_energy(s).
EnergyKeeps(s, en) ==
    /\ \A a \in DOMAIN heap : en.h[a] = heap[a]
    /\ Val(en.h, s) = Val(heap, s)
    /\ ArraysOf(en.period_sim) \cap DOMAIN heap = {}

CallsKeep(s) ==
    /\ \A use_source_terms \in BOOLEAN :
          Bind(compute_cost_gradient(heap, s, use_source_terms),
               LAMBDA g : GradientKeeps(s, g))
    /\ Bind(compute_control_energy(heap, s), LAMBDA en : EnergyKeeps(s, en))

\* C7: compute_cost_gradient(s, ...) and compute_control_energy(s) leave the
\* arrays of s, and every other array, as they were, and their solvers share
\* no array with s; initial_state keeps the values the easing left it with;
\* a round of the loop makes of approx_solution, residual and search_dir what
\* its own updates say, and no other step changes them.
C7_CallsLeaveStatesAlone ==
    /\ [](InLoopOrAfter =>
            \A s \in {initial_state, approx_solution, residual, search_dir} :
                CallsKeep(s))
    /\ [][pc = "easing" /\ pc' = "cg" =>
            Val(heap', initial_state') = Val(heap, transition_sim.state)]_vars
    /\ [][InLoopOrAfter =>
            /\ Val(heap', initial_state') = Val(heap, initial_state)
            /\ LoopStates(heap', approx_solution', residual', search_dir') =
                  IF step_count' = step_count
                  THEN LoopStates(heap, approx_solution, residual, search_dir)
                  ELSE round_by_value(Val(heap, approx_solution),
                                      Val(heap, residual),
                                      Val(heap, search_dir))]_vars

\* Two rounds of the loop have moved approx_solution away from
\* initial_state, with numbers throughout.
C7_Witness ==
    /\ pc = "cg"
    /\ step_count = 2
    /\ StateFinite(approx_solution)
    /\ StateFinite(search_dir)
    /\ Val(heap, approx_solution) # Val(heap, initial_state)
    /\ Val(heap, search_dir) # ZeroState

====
